---- MODULE Spec2Model ----
(***************************************************************************)
(* The two dashboards of the repository:                                   *)
(*   src/jason.py                     recurring-plan variant  ("plan")     *)
(*   src/stock_portfolio_dashboard.py portfolio variant       ("portfolio")*)
(* The model holds the data pipeline of both (fetch, CSV parse, normalise, *)
(* derived fields, aggregate metrics) as operators, and the Streamlit      *)
(* script run around it (widgets, st.cache_data, st.rerun) as actions.     *)
(*                                                                         *)
(* Column names are written in English; the source's names are             *)
(*   ticker = 股票代號, name = 股票名稱, monthly_amount = 每月投入金額,    *)
(*   deduction_day = 扣款日, broker_discount_pct = 券商折扣,               *)
(*   annual_amount = 年度投入金額, estimated_annual_fee = 預估年度手續費,  *)
(*   shares = 持股數量, cost_price = 成本價, current_price = 現價,         *)
(*   market_value = 市值, profit_loss_amount = 盈虧金額,                   *)
(*   profit_loss_pct = 盈虧比例.                                           *)
(* Numbers are exact rationals [n, d] in lowest terms (the rounding of     *)
(* binary floating point is not modelled).                                 *)
(***************************************************************************)
EXTENDS Integers, Sequences, FiniteSets, TLC

(***************************************************************************)
(* Bounds of the model.                                                    *)
(***************************************************************************)
\* the largest number of columns of a fetched spreadsheet
MaxCols == 6
\* the largest number of lines after the header of a fetched spreadsheet
MaxRows == 2
\* the count of loader runs since the last refresh event saturates here
MaxCount == 2

(***************************************************************************)
(* Exact rational arithmetic, standing for the float64 of pandas.          *)
(***************************************************************************)
Abs(x) == IF x < 0 THEN -x ELSE x

RECURSIVE GCD(_, _)
GCD(a, b) == IF b = 0 THEN a ELSE GCD(b, a % b)

\* the rational n/d in lowest terms, d > 0
Rat(n, d) ==
    LET s == IF d < 0 THEN -1 ELSE 1
        g == GCD(Abs(n), Abs(d))
    IN  [n |-> (s * n) \div g, d |-> (s * d) \div g]

RZero == [n |-> 0, d |-> 1]
RInt(i) == [n |-> i, d |-> 1]
RAdd(x, y) == Rat(x.n * y.d + y.n * x.d, x.d * y.d)
RSub(x, y) == Rat(x.n * y.d - y.n * x.d, x.d * y.d)
RMul(x, y) == Rat(x.n * y.n, x.d * y.d)
\* x / y, for y # 0
RDiv(x, y) == Rat(x.n * y.d, x.d * y.n)
RLess(x, y) == x.n * y.d < y.n * x.d

(***************************************************************************)
(* Cells.  A field of the CSV text is blank, a word or a decimal literal;  *)
(* a cell of a DataFrame is NaN, a string or a number.                     *)
(***************************************************************************)
Blank == [k |-> "blank", s |-> "", n |-> 0, d |-> 1]
Word(w) == [k |-> "word", s |-> w, n |-> 0, d |-> 1]
Dec(n, d) == [k |-> "dec", s |-> "", n |-> Rat(n, d).n, d |-> Rat(n, d).d]

NaN == [t |-> "nan", s |-> "", n |-> 0, d |-> 1]
Str(w) == [t |-> "str", s |-> w, n |-> 0, d |-> 1]
Num(r) == [t |-> "num", s |-> "", n |-> r.n, d |-> r.d]
Val(c) == [n |-> c.n, d |-> c.d]

notna(c) == c.t # "nan"

\* the words pandas.read_csv reads as a missing value (its default na_values)
na_values == {"NA", "N/A", "null", "NaN", "nan"}

\* pandas.read_csv on one field
read_cell(f) ==
    IF f.k = "blank" THEN NaN
    ELSE IF f.k = "dec" THEN Num([n |-> f.n, d |-> f.d])
    ELSE IF f.s \in na_values THEN NaN
    ELSE Str(f.s)

\* DataFrame.to_csv on one cell: NaN is written as the empty field
to_csv_cell(c) ==
    IF c.t = "nan" THEN Blank
    ELSE IF c.t = "num" THEN Dec(c.n, c.d)
    ELSE Word(c.s)

\* pd.to_numeric(..., errors='coerce') on one cell
to_numeric(c) == IF c.t = "num" THEN c ELSE NaN

\* Series.fillna(0) on one cell
fillna0(c) == IF c.t = "nan" THEN Num(RZero) ELSE c

(***************************************************************************)
(* Sequences and DataFrames.  A DataFrame is [ok, err, cols, rows]: cols   *)
(* the column names in order, rows the rows in order, each row one cell    *)
(* per column.  A raised exception is [ok |-> FALSE, err |-> its kind].    *)
(***************************************************************************)
Range(s) == {s[i] : i \in DOMAIN s}

Take(s, n) == SubSeq(s, 1, IF n < Len(s) THEN n ELSE Len(s))

RECURSIVE Filter(_, _)
\* the elements of s whose index is in keep, in order
Filter(s, keep) ==
    IF s = <<>> THEN <<>>
    ELSE LET n == Len(s)
             front == Filter(SubSeq(s, 1, n - 1), keep)
         IN  IF n \in keep THEN Append(front, s[n]) ELSE front

DataFrame(cols, rows) == [ok |-> TRUE, err |-> "", cols |-> cols, rows |-> rows]
Raised(kind) == [ok |-> FALSE, err |-> kind, cols |-> <<>>, rows |-> <<>>]
\* Python's None, as a loader's result
None == [ok |-> FALSE, err |-> "None", cols |-> <<>>, rows |-> <<>>]

\* df.empty
empty(df) == Len(df.rows) = 0 \/ Len(df.cols) = 0

\* the position of column c (c in df.columns)
ColIndex(cols, c) == CHOOSE i \in DOMAIN cols : cols[i] = c
HasCol(df, c) == c \in Range(df.cols)

\* df[c], a Series: the cells of column c in row order
Column(df, c) == [r \in DOMAIN df.rows |-> df.rows[r][ColIndex(df.cols, c)]]

\* df[c] = series: replaces the column when it is there, appends it when not
SetColumn(df, c, series) ==
    IF HasCol(df, c)
    THEN DataFrame(df.cols,
            [r \in DOMAIN df.rows |->
                [df.rows[r] EXCEPT ![ColIndex(df.cols, c)] = series[r]]])
    ELSE DataFrame(Append(df.cols, c),
            [r \in DOMAIN df.rows |-> Append(df.rows[r], series[r])])

(***************************************************************************)
(* The HTTP response and pandas.read_csv.  A body is a header line and the *)
(* lines after it, each a sequence of fields; <<>> is a blank line, and a  *)
(* body with no header is the empty text.                                  *)
(***************************************************************************)
Response(net, header, lines) == [net |-> net, header |-> header, lines |-> lines]

\* str.strip on a header name (the padded names of the model are " x ")
strip(s) ==
    IF \E c \in {"ticker", "name", "monthly_amount", "deduction_day",
                 "broker_discount_pct"} : s = " " \o c \o " "
    THEN CHOOSE c \in {"ticker", "name", "monthly_amount", "deduction_day",
                       "broker_discount_pct"} : s = " " \o c \o " "
    ELSE s

\* pandas.read_csv: EmptyDataError on the empty text, ParserError on a line
\* with more fields than the header; blank lines are skipped
\* (skip_blank_lines) and short lines are filled with NaN
read_csv(body) ==
    IF Len(body.header) = 0 THEN Raised("EmptyDataError")
    ELSE IF \E i \in DOMAIN body.lines : Len(body.lines[i]) > Len(body.header)
    THEN Raised("ParserError")
    ELSE LET k == Len(body.header)
             kept == Filter(body.lines, {i \in DOMAIN body.lines : body.lines[i] # <<>>})
         IN  DataFrame(body.header,
                [r \in DOMAIN kept |->
                    [c \in 1..k |-> IF c <= Len(kept[r]) THEN read_cell(kept[r][c])
                                    ELSE NaN]])

\* df.columns = df.columns.str.strip()
strip_columns(df) == DataFrame([i \in DOMAIN df.cols |-> strip(df.cols[i])], df.rows)

\* df.to_csv(index=False): the header and one line per row
to_csv(df) ==
    Response("ok", df.cols,
        [r \in DOMAIN df.rows |->
            [c \in DOMAIN df.rows[r] |-> to_csv_cell(df.rows[r][c])]])

(***************************************************************************)
(* The recurring-plan loader, src/jason.py load_investment_data.           *)
(***************************************************************************)
expected_columns ==
    <<"ticker", "name", "monthly_amount", "deduction_day", "broker_discount_pct">>

\* requests.get(...) and response.raise_for_status(): a connection error, a
\* timeout or a non-2xx status raises a RequestException
requests_get(resp) ==
    IF resp.net = "ok" THEN DataFrame(<<>>, <<>>) ELSE Raised("RequestException")

\* df.dropna(how='all')
dropna_all(df) ==
    DataFrame(df.cols,
        Filter(df.rows, {r \in DOMAIN df.rows :
                            \E c \in DOMAIN df.rows[r] : notna(df.rows[r][c])}))

\* df[df.iloc[:, 0].notna() & df.iloc[:, 1].notna()]; iloc[:, 1] raises
\* IndexError on a table of fewer than two columns
filter_ticker_name(df) ==
    IF Len(df.cols) < 2 THEN Raised("IndexError")
    ELSE DataFrame(df.cols,
            Filter(df.rows, {r \in DOMAIN df.rows :
                                notna(df.rows[r][1]) /\ notna(df.rows[r][2])}))

\* df.columns = names: pandas raises ValueError (length mismatch) unless there
\* is one name per column
set_columns(df, names) ==
    IF Len(names) = Len(df.cols) THEN DataFrame(names, df.rows)
    ELSE Raised("ValueError")

\* if len(df.columns) >= len(expected_columns):
\*     df.columns = expected_columns[:len(df.columns)]
rename_columns(df) ==
    IF Len(df.cols) >= Len(expected_columns)
    THEN set_columns(df, Take(expected_columns, Len(df.cols)))
    ELSE df

\* if c in df.columns: df[c] = pd.to_numeric(df[c], errors='coerce').fillna(0)
coerce_fill(df, c) ==
    IF HasCol(df, c)
    THEN SetColumn(df, c,
            [r \in DOMAIN df.rows |-> fillna0(to_numeric(Column(df, c)[r]))])
    ELSE df

coerce_numeric(df) ==
    coerce_fill(coerce_fill(coerce_fill(df, "monthly_amount"), "deduction_day"),
                "broker_discount_pct")

\* df['annual_amount'] = df['monthly_amount'] * 12
\* df['estimated_annual_fee'] = (df['broker_discount_pct'] / 100) * df['annual_amount']
\* df[c] raises KeyError when column c is absent
derived_fields(df) ==
    IF ~HasCol(df, "monthly_amount") THEN Raised("KeyError")
    ELSE LET a == SetColumn(df, "annual_amount",
                    [r \in DOMAIN df.rows |->
                        Num(RMul(Val(Column(df, "monthly_amount")[r]), RInt(12)))])
         IN  IF ~HasCol(a, "broker_discount_pct") THEN Raised("KeyError")
             ELSE SetColumn(a, "estimated_annual_fee",
                    [r \in DOMAIN a.rows |->
                        Num(RMul(RDiv(Val(Column(a, "broker_discount_pct")[r]), RInt(100)),
                                 Val(Column(a, "annual_amount")[r])))])

(***************************************************************************)
(* The recurring-plan metrics, src/jason.py calculate_investment_summary.  *)
(***************************************************************************)
RECURSIVE SumSeq(_)
\* the sum of a sequence of rationals
SumSeq(s) ==
    IF s = <<>> THEN RZero ELSE RAdd(SumSeq(SubSeq(s, 1, Len(s) - 1)), s[Len(s)])

\* Series.sum(): NaN cells are skipped (skipna)
series_sum(series) ==
    SumSeq([i \in DOMAIN Filter(series, {j \in DOMAIN series : series[j].t = "num"}) |->
                Val(Filter(series, {j \in DOMAIN series : series[j].t = "num"})[i])])

\* Series.mean() of a series that holds numbers only and is not empty
series_mean(series) == RDiv(series_sum(series), RInt(Len(series)))

\* standard_fee = 0.1425
standard_fee == Rat(1425, 10000)

SummaryKeys ==
    {"count", "monthly_total", "annual_total", "mean_discount", "total_fee", "fee_savings"}

\* the dict {} of the early return
EmptySummary ==
    [keys |-> {}, count |-> 0, monthly_total |-> RZero, annual_total |-> RZero,
     mean_discount |-> RZero, total_fee |-> RZero, fee_savings |-> RZero]

\* fee_savings with a negative saving clamped to zero
fee_savings_clamped(mean, annual_total) ==
    IF RLess(RZero, mean) /\ RLess(mean, standard_fee)
    THEN RMul(RDiv(RSub(standard_fee, mean), RInt(100)), annual_total)
    ELSE RZero

\* if mean > 0: ((standard_fee - mean) / 100) * annual_total  else: 0
fee_savings(mean, annual_total) ==
    IF RLess(RZero, mean)
    THEN RMul(RDiv(RSub(standard_fee, mean), RInt(100)), annual_total)
    ELSE RZero

calculate_investment_summary(df) ==
    IF ~df.ok \/ empty(df) THEN EmptySummary
    ELSE LET mean == series_mean(Column(df, "broker_discount_pct"))
             annual == series_sum(Column(df, "annual_amount"))
         IN  [keys |-> SummaryKeys,
              count |-> Len(df.rows),
              monthly_total |-> series_sum(Column(df, "monthly_amount")),
              annual_total |-> annual,
              mean_discount |-> mean,
              total_fee |-> series_sum(Column(df, "estimated_annual_fee")),
              fee_savings |-> fee_savings(mean, annual)]

(***************************************************************************)
(* The portfolio variant, src/stock_portfolio_dashboard.py.                *)
(***************************************************************************)
portfolio_columns ==
    <<"ticker", "name", "shares", "cost_price", "current_price", "market_value",
      "profit_loss_amount", "profit_loss_pct">>

SampleRow(ticker, name, shares, cost, price, value, pl, pct100) ==
    <<Num(RInt(ticker)), Str(name), Num(RInt(shares)), Num(RInt(cost)), Num(RInt(price)),
      Num(RInt(value)), Num(RInt(pl)), Num(Rat(pct100, 100))>>

create_sample_data ==
    DataFrame(portfolio_columns,
        <<SampleRow(2330, "TSMC", 100, 520, 580, 58000, 6000, 1154),
          SampleRow(2317, "HonHai", 200, 95, 102, 20400, 1400, 737),
          SampleRow(2454, "MediaTek", 50, 800, 750, 37500, -2500, -625),
          SampleRow(3008, "Largan", 30, 2500, 2800, 84000, 9000, 1200),
          SampleRow(2412, "CHT", 150, 120, 125, 18750, 750, 417),
          SampleRow(2382, "Quanta", 80, 180, 190, 15200, 800, 556)>>)

numeric_columns ==
    <<"shares", "cost_price", "current_price", "market_value", "profit_loss_amount",
      "profit_loss_pct">>

\* if col in df.columns: df[col] = pd.to_numeric(df[col], errors='coerce')
coerce(df, c) ==
    IF HasCol(df, c)
    THEN SetColumn(df, c, [r \in DOMAIN df.rows |-> to_numeric(Column(df, c)[r])])
    ELSE df

RECURSIVE coerce_all(_, _)
\* for col in numeric_columns: ...
coerce_all(df, cs) ==
    IF cs = <<>> THEN df ELSE coerce_all(coerce(df, cs[1]), Tail(cs))

\* the table the statistics are computed from (lines 93-96)
portfolio_numeric(df) == coerce_all(df, numeric_columns)

\* df['market_value'].sum() if 'market_value' in df.columns else 0
total_market_value(df) ==
    IF HasCol(df, "market_value") THEN series_sum(Column(df, "market_value")) ELSE RZero

\* df['profit_loss_amount'].sum() if 'profit_loss_amount' in df.columns else 0
total_profit_loss(df) ==
    IF HasCol(df, "profit_loss_amount")
    THEN series_sum(Column(df, "profit_loss_amount")) ELSE RZero

\* return_rate with the market value, not the cost, as the denominator
return_rate_on_value(mv, pl) ==
    IF mv.n # 0 THEN RMul(RDiv(pl, mv), RInt(100)) ELSE RZero

\* (pl / (mv - pl)) * 100 if mv != pl else 0
return_rate(mv, pl) ==
    IF mv # pl THEN RMul(RDiv(pl, RSub(mv, pl)), RInt(100)) ELSE RZero

total_return_rate(df) == return_rate(total_market_value(df), total_profit_loss(df))

\* f"{x:.2f}" (line 122): x rounded to the nearest hundredth, in hundredths
format_2f(x) ==
    LET a == (2 * Abs(x.n) * 100 + x.d) \div (2 * x.d)
    IN  IF x.n < 0 THEN -a ELSE a

(***************************************************************************)
(* Program constants.                                                      *)
(***************************************************************************)
\* @st.cache_data(ttl=300), src/jason.py
PlanTTL == 300
\* time.sleep(300), src/jason.py
PlanSleep == 300
\* @st.cache_data(ttl=60), src/stock_portfolio_dashboard.py
PortfolioTTL == 60
\* time.sleep(30), src/stock_portfolio_dashboard.py
PortfolioSleep == 30

Variants == {"plan", "portfolio"}
ttl(v) == IF v = "plan" THEN PlanTTL ELSE PortfolioTTL
sleep_seconds(v) == IF v = "plan" THEN PlanSleep ELSE PortfolioSleep

\* whether the fetch and the parse of response r succeed
fetch_parse_ok(r) == r.net = "ok" /\ read_csv(r).ok

(***************************************************************************)
(* State.                                                                  *)
(***************************************************************************)
VARIABLES
    variant,       \* which of the two scripts runs
    pc,            \* the position of the script run
    resp,          \* the response the loader's last fetch received
    df,            \* the script's df (inside the loader, the loader's df)
    raised,        \* the exception the loader's except clause caught, if any
    summary,       \* calculate_investment_summary's result (plan)
    stats,         \* the aggregate statistics (portfolio)
    outcome,       \* what the script run showed
    csv_data,      \* the CSV export of the run (plan)
    first,         \* the table of the first load, when its CSV is loaded again
    pass,          \* 1, or 2 when the loader runs on a re-serialized table
    auto_refresh,  \* the auto-refresh checkbox
    clicked,       \* the refresh button was pressed for this run
    cache,         \* st.cache_data's entry for the loader
    age,           \* seconds since the entry was stored, up to its TTL
    since,         \* loader runs since the last refresh event
    gap,           \* loader runs between the last two refresh events
    hadEvent       \* a refresh event has happened

vars == <<variant, pc, resp, df, raised, summary, stats, outcome, csv_data, first, pass,
          auto_refresh, clicked, cache, age, since, gap, hadEvent>>

\* the locals of a script run
runVars == <<df, raised, summary, stats, outcome, csv_data>>
\* the widgets, the cache and the observers
viewVars == <<auto_refresh, clicked, cache, age, since, gap, hadEvent>>

NoResponse == Response("none", <<>>, <<>>)
EmptyCache == [full |-> FALSE, value |-> None]
NoStats == [count |-> 0, market_value |-> RZero, profit_loss |-> RZero,
            return_rate |-> RZero]

(***************************************************************************)
(* The spreadsheets a fetch may return.                                    *)
(***************************************************************************)
\* recurring-plan lines: ticker, name, monthly amount, deduction day, discount
PlanLines ==
    { <<Dec(2330, 1), Word("TSMC"), Dec(10000, 1), Dec(6, 1), Dec(1, 10)>>,
      <<Dec(2317, 1), Word("HonHai"), Dec(10000, 1), Dec(16, 1), Dec(2, 10)>>,
      <<Dec(2454, 1), Word("MediaTek"), Dec(1000, 1), Dec(6, 1), Dec(-2, 10)>>,
      <<Dec(3008, 1), Word("Largan"), Word("abc"), Blank, Word("free")>>,
      <<Dec(2412, 1), Blank, Dec(1000, 1), Dec(6, 1), Dec(1, 10)>>,
      <<Blank, Word("Quanta"), Dec(1000, 1), Dec(6, 1), Dec(1, 10)>>,
      <<Dec(2382, 1), Word("N/A"), Dec(1000, 1), Dec(6, 1), Dec(1, 10)>>,
      <<Blank, Blank, Blank, Blank, Blank>> }

\* a line of PlanLines cut or extended to k fields
Fit(line, k) == [i \in 1..k |-> IF i <= Len(line) THEN line[i] ELSE Word("x")]

\* the lines a body of k columns may hold: the fitted lines, the blank line
\* and a line of one field too many
LinesOf(k) == {Fit(l, k) : l \in PlanLines} \cup {<<>>, Fit(<<>>, k + 1)}

RECURSIVE SeqsUpTo(_, _)
\* the sequences of at most n elements of S
SeqsUpTo(S, n) ==
    IF n = 0 THEN {<<>>}
    ELSE LET shorter == SeqsUpTo(S, n - 1)
         IN  shorter \cup {Append(q, x) : q \in {t \in shorter : Len(t) = n - 1}, x \in S}

permuted_columns ==
    <<"monthly_amount", "broker_discount_pct", "ticker", "name", "deduction_day">>

HeaderKinds == {"canonical", "padded", "foreign", "permuted"}

\* a header of k names
HeaderOf(kind, k) ==
    [i \in 1..k |->
        IF kind = "foreign" \/ i > Len(expected_columns) THEN "col" \o ToString(i)
        ELSE IF kind = "canonical" THEN expected_columns[i]
        ELSE IF kind = "padded" THEN " " \o expected_columns[i] \o " "
        ELSE permuted_columns[i]]

NetworkError == Response("error", <<>>, <<>>)
EmptyBody == Response("ok", <<>>, <<>>)

PlanResponses ==
    {NetworkError, EmptyBody} \cup
    UNION {{Response("ok", HeaderOf(kind, k), lines) :
                kind \in HeaderKinds, lines \in SeqsUpTo(LinesOf(k), MaxRows)} :
           k \in 1..MaxCols}

\* portfolio lines, in the order of portfolio_columns
PortfolioLines ==
    { <<Dec(2330, 1), Word("TSMC"), Dec(100, 1), Dec(520, 1), Dec(580, 1),
        Dec(100000, 1), Dec(10000, 1), Dec(1154, 100)>>,
      <<Dec(2454, 1), Word("MediaTek"), Dec(50, 1), Dec(800, 1), Dec(750, 1),
        Dec(37500, 1), Dec(-2500, 1), Dec(-625, 100)>>,
      <<Dec(2317, 1), Word("HonHai"), Dec(200, 1), Dec(95, 1), Dec(102, 1),
        Dec(5000, 1), Dec(5000, 1), Dec(737, 100)>>,
      <<Dec(2412, 1), Blank, Dec(150, 1), Dec(120, 1), Dec(125, 1),
        Word("abc"), Blank, Dec(417, 100)>>,
      <<Blank, Blank, Blank, Blank, Blank, Blank, Blank, Blank>> }

\* the columns a portfolio spreadsheet may lack
OptionalColumns == {"market_value", "profit_loss_amount", "name"}

\* the columns of portfolio_columns that are not in drop, in order
Keep(drop) == {i \in DOMAIN portfolio_columns : portfolio_columns[i] \notin drop}

PortfolioResponses ==
    {NetworkError, EmptyBody} \cup
    UNION {{Response("ok", Filter(portfolio_columns, Keep(drop)), lines) :
                lines \in SeqsUpTo({Filter(l, Keep(drop)) : l \in PortfolioLines}
                                       \cup {<<>>}, MaxRows)} :
           drop \in SUBSET OptionalColumns}

Responses(v) == IF v = "plan" THEN PlanResponses ELSE PortfolioResponses

\* the responses of the running dashboard: a failed fetch, an empty body, a
\* header alone, a wider header alone, and two sheets with rows
LiveResponses(v) ==
    IF v = "plan"
    THEN {NetworkError, EmptyBody,
          Response("ok", HeaderOf("canonical", 5), <<>>),
          Response("ok", HeaderOf("canonical", 6), <<>>),
          Response("ok", HeaderOf("canonical", 5),
                   <<Fit(<<Dec(2330, 1), Word("TSMC"), Dec(10000, 1), Dec(6, 1), Dec(1, 10)>>, 5)>>)}
    ELSE {NetworkError, EmptyBody,
          Response("ok", portfolio_columns, <<>>),
          Response("ok", portfolio_columns,
                   <<<<Dec(2330, 1), Word("TSMC"), Dec(100, 1), Dec(520, 1), Dec(580, 1),
                       Dec(100000, 1), Dec(10000, 1), Dec(1154, 100)>>>>),
          Response("ok", <<"ticker", "market_value">>, <<<<Dec(2330, 1), Dec(100000, 1)>>>>)}

(***************************************************************************)
(* Streamlit: a script run starts with fresh locals; st.cache_data keeps   *)
(* the loader's result for ttl seconds; st.rerun() starts the next run.    *)
(***************************************************************************)
Min(a, b) == IF a < b THEN a ELSE b

\* the first script run of a session begins
Init ==
    /\ variant \in Variants
    /\ pc = "run_start"
    /\ resp = NoResponse
    /\ df = None
    /\ raised = ""
    /\ summary = EmptySummary
    /\ stats = NoStats
    /\ outcome = "none"
    /\ csv_data = NoResponse
    /\ first = None
    /\ pass = 1
    /\ auto_refresh = FALSE
    /\ clicked = FALSE
    /\ cache = EmptyCache
    /\ age = 0
    /\ since = 0
    /\ gap = 1
    /\ hadEvent = FALSE

\* the next script run begins
StartRun ==
    /\ pc' = "run_start"
    /\ df' = None
    /\ raised' = ""
    /\ summary' = EmptySummary
    /\ stats' = NoStats
    /\ outcome' = "none"
    /\ csv_data' = NoResponse

\* a refresh event is observed: a manual click or a firing of the timer (an
\* expiry of the cache entry starts no run by itself and is not counted)
RefreshEvent ==
    /\ hadEvent' = TRUE
    /\ gap' = IF hadEvent THEN since ELSE gap
    /\ since' = 0

\* a cache that keeps successful results only
fresh_unless_failed ==
    cache.full /\ age < ttl(variant) /\ cache.value \notin {None, create_sample_data}

\* the cache entry is usable
fresh == cache.full /\ age < ttl(variant)

\* where the script continues after the loader's call
AfterLoad == IF variant = "plan" THEN "loaded" ELSE "button"

\* the call of the cached loader: the stored value while the entry is fresh,
\* otherwise the loader's body runs on what the fetch returns
CallLoader ==
    \/ /\ fresh
       /\ df' = cache.value
       /\ pc' = AfterLoad
       /\ UNCHANGED <<resp, since>>
    \/ /\ ~fresh
       /\ resp' \in LiveResponses(variant)
       /\ df' = df
       /\ pc' = "fetch"
       /\ since' = Min(since + 1, MaxCount)

\* time.sleep(seconds); st.rerun(): the timer fires, and the entry may expire
SleepAndRerun ==
    /\ age' = Min(age + sleep_seconds(variant), ttl(variant))
    /\ RefreshEvent
    /\ StartRun
    /\ UNCHANGED <<variant, resp, first, pass, auto_refresh, clicked, cache>>

\* st.cache_data.clear(); st.rerun()
ClearAndRerun ==
    /\ cache' = EmptyCache
    /\ age' = 0
    /\ clicked' = FALSE
    /\ StartRun
    /\ UNCHANGED <<variant, resp, first, pass, auto_refresh, since, gap, hadEvent>>

(***************************************************************************)
(* The loaders' bodies, a step at a time.                                  *)
(***************************************************************************)
\* jason.py lines 86-92: requests.get, raise_for_status, pd.read_csv
\* dashboard line 50: pd.read_csv(csv_url)
load_fetch ==
    /\ pc = "fetch"
    /\ df' = IF variant = "plan"
             THEN (IF requests_get(resp).ok THEN read_csv(resp) ELSE requests_get(resp))
             ELSE (IF resp.net = "ok" THEN read_csv(resp) ELSE Raised("URLError"))
    /\ pc' = IF fetch_parse_ok(resp) THEN "clean" ELSE "except"
    /\ UNCHANGED <<variant, resp, raised, summary, stats, outcome, csv_data, first, pass>>
    /\ UNCHANGED viewVars

\* jason.py lines 95-99: strip the header, drop the empty rows, keep the rows
\* with a ticker and a name
\* dashboard line 53: strip the header
load_clean ==
    /\ pc = "clean"
    /\ \/ /\ variant = "plan"
          /\ df' = filter_ticker_name(dropna_all(strip_columns(df)))
          /\ pc' = IF Len(df.cols) < 2 THEN "except" ELSE "rename"
       \/ /\ variant = "portfolio"
          /\ df' = strip_columns(df)
          /\ pc' = "return"
    /\ UNCHANGED <<variant, resp, raised, summary, stats, outcome, csv_data, first, pass>>
    /\ UNCHANGED viewVars

\* jason.py lines 102-104
load_rename ==
    /\ pc = "rename"
    /\ df' = rename_columns(df)
    /\ pc' = IF rename_columns(df).ok THEN "coerce" ELSE "except"
    /\ UNCHANGED <<variant, resp, raised, summary, stats, outcome, csv_data, first, pass>>
    /\ UNCHANGED viewVars

\* jason.py lines 107-114
load_coerce ==
    /\ pc = "coerce"
    /\ df' = coerce_numeric(df)
    /\ pc' = "derive"
    /\ UNCHANGED <<variant, resp, raised, summary, stats, outcome, csv_data, first, pass>>
    /\ UNCHANGED viewVars

\* jason.py lines 117-118
load_derive ==
    /\ pc = "derive"
    /\ df' = derived_fields(df)
    /\ pc' = IF derived_fields(df).ok THEN "return" ELSE "except"
    /\ UNCHANGED <<variant, resp, raised, summary, stats, outcome, csv_data, first, pass>>
    /\ UNCHANGED viewVars

\* jason.py lines 122-130: st.error(...); return None
\* dashboard lines 59-62: st.error(...); return create_sample_data()
load_except ==
    /\ pc = "except"
    /\ raised' = df.err
    /\ df' = IF variant = "plan" THEN None ELSE create_sample_data
    /\ pc' = "return"
    /\ UNCHANGED <<variant, resp, summary, stats, outcome, csv_data, first, pass>>
    /\ UNCHANGED viewVars

\* the loader returns: st.cache_data stores the result
load_return ==
    /\ pc = "return"
    /\ cache' = [full |-> TRUE, value |-> df]
    /\ age' = 0
    /\ pc' = AfterLoad
    /\ UNCHANGED <<variant, resp, first, pass, auto_refresh, clicked, since, gap, hadEvent>>
    /\ UNCHANGED runVars

(***************************************************************************)
(* src/jason.py main().                                                    *)
(***************************************************************************)
\* lines 293-297: if auto_refresh: time.sleep(300); st.rerun()
main_auto_refresh ==
    /\ variant = "plan" /\ pc = "run_start"
    /\ auto_refresh
    /\ SleepAndRerun

\* lines 300-302: if st.sidebar.button(...): st.cache_data.clear(); st.rerun()
main_manual_refresh ==
    /\ variant = "plan" /\ pc = "run_start"
    /\ ~auto_refresh /\ clicked
    /\ ClearAndRerun

\* lines 310-311: df = load_investment_data(CSV_URL)
main_load ==
    /\ variant = "plan" /\ pc = "run_start"
    /\ ~auto_refresh /\ ~clicked
    /\ CallLoader
    /\ UNCHANGED <<variant, raised, summary, stats, outcome, csv_data, first, pass,
                   auto_refresh, clicked, cache, age, gap, hadEvent>>

\* lines 313-333: if df is None: ... return; if df.empty: ... return
main_branch ==
    /\ variant = "plan" /\ pc = "loaded"
    /\ \/ /\ df = None
          /\ outcome' = "load_failed" /\ pc' = "idle"
       \/ /\ df # None /\ empty(df)
          /\ outcome' = "no_rows" /\ pc' = "idle"
       \/ /\ df # None /\ ~empty(df)
          /\ outcome' = outcome /\ pc' = "summary"
    /\ UNCHANGED <<variant, resp, df, raised, summary, stats, csv_data, first, pass>>
    /\ UNCHANGED viewVars

\* line 336: summary = calculate_investment_summary(df)
main_summary ==
    /\ variant = "plan" /\ pc = "summary"
    /\ summary' = calculate_investment_summary(df)
    /\ pc' = "export"
    /\ UNCHANGED <<variant, resp, df, raised, stats, outcome, csv_data, first, pass>>
    /\ UNCHANGED viewVars

\* lines 465-473: csv_data = df.to_csv(index=False, ...); the run ends
main_export ==
    /\ variant = "plan" /\ pc = "export"
    /\ csv_data' = IF ~empty(df) THEN to_csv(df) ELSE csv_data
    /\ outcome' = "dashboard"
    /\ pc' = "idle"
    /\ UNCHANGED <<variant, resp, df, raised, summary, stats, first, pass>>
    /\ UNCHANGED viewVars

(***************************************************************************)
(* src/stock_portfolio_dashboard.py, the script.                           *)
(***************************************************************************)
\* line 79: df = load_data()
script_load ==
    /\ variant = "portfolio" /\ pc = "run_start"
    /\ CallLoader
    /\ UNCHANGED <<variant, raised, summary, stats, outcome, csv_data, first, pass,
                   auto_refresh, clicked, cache, age, gap, hadEvent>>

\* lines 82-84: if st.button(...): st.cache_data.clear(); st.rerun()
script_button ==
    /\ variant = "portfolio" /\ pc = "button"
    /\ \/ /\ clicked
          /\ ClearAndRerun
       \/ /\ ~clicked
          /\ pc' = "branch"
          /\ UNCHANGED <<variant, resp, first, pass>>
          /\ UNCHANGED runVars
          /\ UNCHANGED viewVars

\* lines 90-105: the numeric columns are coerced and the statistics computed
\* when df is not None and not df.empty; lines 269-273 otherwise
script_statistics ==
    /\ variant = "portfolio" /\ pc = "branch"
    /\ \/ /\ df # None /\ ~empty(df)
          /\ df' = portfolio_numeric(df)
          /\ stats' = [count |-> Len(df.rows),
                       market_value |-> total_market_value(portfolio_numeric(df)),
                       profit_loss |-> total_profit_loss(portfolio_numeric(df)),
                       return_rate |-> total_return_rate(portfolio_numeric(df))]
          /\ outcome' = outcome
          /\ pc' = "charts"
       \/ /\ ~(df # None /\ ~empty(df))
          /\ outcome' = "load_failed"
          /\ pc' = "footer"
          /\ UNCHANGED <<df, stats>>
    /\ UNCHANGED <<variant, resp, raised, summary, csv_data, first, pass>>
    /\ UNCHANGED viewVars

\* lines 143-267: the charts and the table.  Line 185 calls
\* fig_bar.update_xaxis, which plotly's Figure may not have (its method is
\* update_xaxes): when the bar chart is drawn the run may end there with an
\* AttributeError, before the checkbox of line 280 is shown
script_charts ==
    /\ variant = "portfolio" /\ pc = "charts"
    /\ \/ /\ HasCol(df, "name") /\ HasCol(df, "profit_loss_amount")
          /\ outcome' = "exception"
          /\ pc' = "idle"
       \/ /\ outcome' = "dashboard"
          /\ pc' = "footer"
    /\ UNCHANGED <<variant, resp, df, raised, summary, stats, csv_data, first, pass>>
    /\ UNCHANGED viewVars

\* lines 280-282: if st.sidebar.checkbox(...): time.sleep(30); st.rerun()
script_footer ==
    /\ variant = "portfolio" /\ pc = "footer"
    /\ \/ /\ auto_refresh
          /\ SleepAndRerun
       \/ /\ ~auto_refresh
          /\ pc' = "idle"
          /\ UNCHANGED <<variant, resp, first, pass>>
          /\ UNCHANGED runVars
          /\ UNCHANGED viewVars

(***************************************************************************)
(* The user and the clock.                                                 *)
(***************************************************************************)
\* the checkbox is on the page: always in the plan script, in the portfolio
\* script when the run reached line 280
checkbox_shown == variant = "plan" \/ outcome # "exception"

\* the user ticks or unticks the checkbox of a finished run: the script reruns
ToggleAutoRefresh ==
    /\ pc = "idle" /\ checkbox_shown /\ pass = 1
    /\ auto_refresh' = ~auto_refresh
    /\ StartRun
    /\ UNCHANGED <<variant, resp, first, pass, clicked, cache, age, since, gap, hadEvent>>

\* the user unticks the checkbox while the script sleeps
UncheckDuringSleep ==
    /\ auto_refresh
    /\ \/ variant = "plan" /\ pc = "run_start"
       \/ variant = "portfolio" /\ pc = "footer"
    /\ auto_refresh' = FALSE
    /\ StartRun
    /\ UNCHANGED <<variant, resp, first, pass, clicked, cache, age, since, gap, hadEvent>>

\* the user presses the refresh button of a finished run: the script reruns
ClickRefresh ==
    /\ pc = "idle" /\ pass = 1
    /\ clicked' = TRUE
    /\ RefreshEvent
    /\ StartRun
    /\ UNCHANGED <<variant, resp, first, pass, auto_refresh, cache, age>>

\* time passes while the page is idle; the entry expires when its age reaches
\* its TTL
Tick ==
    /\ pc = "idle" /\ fresh /\ pass = 1
    /\ \E e \in {PortfolioSleep, PlanSleep} : age' = Min(age + e, ttl(variant))
    /\ UNCHANGED <<variant, pc, resp, first, pass, auto_refresh, clicked, cache, since,
                   gap, hadEvent>>
    /\ UNCHANGED runVars

Loader ==
    \/ load_fetch \/ load_clean \/ load_rename \/ load_coerce \/ load_derive
    \/ load_except \/ load_return

Script ==
    \/ main_auto_refresh \/ main_manual_refresh \/ main_load \/ main_branch
    \/ main_summary \/ main_export
    \/ script_load \/ script_button \/ script_statistics \/ script_charts
    \/ script_footer

User == ToggleAutoRefresh \/ UncheckDuringSleep \/ ClickRefresh \/ Tick

Next == Loader \/ Script \/ User

\* the dashboards as they run: the script, its cache, the user and the clock
Spec == Init /\ [][Next]_vars

(***************************************************************************)
(* The pipeline on every spreadsheet of the bounds: one script run whose   *)
(* fetch returns the spreadsheet, and then the loader once more on the     *)
(* CSV text of the table it returned.                                      *)
(***************************************************************************)
InitPipeline ==
    /\ variant \in Variants
    /\ resp \in Responses(variant)
    /\ pc = "fetch"
    /\ df = None
    /\ raised = ""
    /\ summary = EmptySummary
    /\ stats = NoStats
    /\ outcome = "none"
    /\ csv_data = NoResponse
    /\ first = None
    /\ pass = 1
    /\ auto_refresh = FALSE
    /\ clicked = FALSE
    /\ cache = EmptyCache
    /\ age = 0
    /\ since = 1
    /\ gap = 1
    /\ hadEvent = FALSE

\* the table the loader returned is written with to_csv and that text is what
\* the next fetch returns
Reload ==
    /\ variant = "plan" /\ pc = "idle" /\ pass = 1
    /\ df # None
    /\ first' = df
    /\ pass' = 2
    /\ resp' = to_csv(df)
    /\ cache' = EmptyCache
    /\ pc' = "fetch"
    /\ df' = None
    /\ raised' = ""
    /\ summary' = EmptySummary
    /\ outcome' = "none"
    /\ csv_data' = NoResponse
    /\ UNCHANGED <<variant, stats, auto_refresh, clicked, age, since, gap, hadEvent>>

NextPipeline ==
    \/ Loader
    \/ main_branch \/ main_summary \/ main_export
    \/ script_button \/ script_statistics \/ script_charts \/ script_footer
    \/ Reload

SpecPipeline == InitPipeline /\ [][NextPipeline]_vars

(***************************************************************************)
(* calculate_investment_summary applied to whatever the recurring-plan     *)
(* loader returns, the empty table and None included (the function's own   *)
(* guard of line 146 is then what decides, not the early returns of main). *)
(***************************************************************************)
InitCompute == InitPipeline /\ variant = "plan"

\* lines 144-163: summary = calculate_investment_summary(df)
compute ==
    /\ variant = "plan" /\ pc = "loaded"
    /\ summary' = calculate_investment_summary(df)
    /\ pc' = "computed"
    /\ UNCHANGED <<variant, resp, df, raised, stats, outcome, csv_data, first, pass>>
    /\ UNCHANGED viewVars

NextCompute == Loader \/ compute

SpecCompute == InitCompute /\ [][NextCompute]_vars

(***************************************************************************)
(* Properties.                                                             *)
(***************************************************************************)
\* the loader's call of this run has returned
Loaded == pc \in {"loaded", "summary", "export", "button", "branch", "charts", "footer",
                  "idle"}
\* df is the normalized table: in the plan script the loader's result, in the
\* portfolio script the table after the coercion of lines 93-96
NormalizedTable ==
    \/ variant = "plan" /\ pc \in {"loaded", "summary", "export", "idle"} /\ df # None
    \/ variant = "portfolio" /\ pc \in {"charts", "footer", "idle"} /\ df # None
\* the metrics are being computed, or have been, from df
MetricsComputed ==
    \/ variant = "plan" /\ pc \in {"summary", "export"}
    \/ variant = "portfolio" /\ pc = "charts"

\* the numeric-designated columns of each variant
NumericDesignated ==
    IF variant = "plan" THEN {"monthly_amount", "deduction_day", "broker_discount_pct"}
    ELSE Range(numeric_columns)

\* the lines of the fetched body that hold a ticker and a name (its first two
\* fields)
GoodLines ==
    {i \in DOMAIN resp.lines :
        /\ Len(resp.lines[i]) >= 2
        /\ notna(read_cell(resp.lines[i][1]))
        /\ notna(read_cell(resp.lines[i][2]))}

\* the fetched body has the ticker and the name column
HasTickerAndName == Len(resp.header) >= 2

\* the fetch and the parse succeeded and no line is left after the filtering
ZeroDataRows ==
    /\ fetch_parse_ok(resp)
    /\ HasTickerAndName
    /\ IF variant = "plan" THEN GoodLines = {}
       ELSE \A i \in DOMAIN resp.lines : resp.lines[i] = <<>>

\* C1: whenever the fetch or the parse failed the loader's result is the
\* failure value, and the metrics are only ever computed from rows of a
\* successfully fetched and parsed spreadsheet.
C1_NoFabricatedData ==
    /\ (Loaded /\ resp # NoResponse /\ ~fetch_parse_ok(resp)) => df = None
    /\ MetricsComputed => fetch_parse_ok(resp)

\* C2: between two consecutive refresh events (manual click, firing of the
\* auto-refresh timer) the loader's body has run exactly once.
C2_OneLoadPerRefresh == gap = 1

\* C3: the rename step renames the first min(k, 5) columns to the canonical
\* names, keeps the names of the columns beyond the fifth, and never makes
\* the load fail.
C3_RenameFirstN ==
    variant = "plan" =>
        /\ pc = "coerce" =>
              df.cols = [i \in DOMAIN resp.header |->
                            IF i <= Len(expected_columns) THEN expected_columns[i]
                            ELSE strip(resp.header[i])]
        /\ pc = "except" => df.err # "ValueError"

\* C4: a spreadsheet with a ticker and a name column but fewer columns than
\* the schema still loads: the loader returns a table.
C4_ShortSheetLoads ==
    (variant = "plan" /\ Loaded /\ fetch_parse_ok(resp) /\ HasTickerAndName
        /\ Len(resp.header) < Len(expected_columns)) => df # None

\* C5: in the normalized table every cell of every numeric-designated column
\* that is present holds a number, and holds zero where the source field was
\* missing or unparseable.
C5_NumericCells ==
    NormalizedTable =>
        \A c \in NumericDesignated \cap Range(df.cols) : \A r \in DOMAIN df.rows :
            LET i == ColIndex(df.cols, c)
            IN  /\ df.rows[r][i].t = "num"
                /\ (/\ Len(df.rows) = Len(resp.lines)
                    /\ i <= Len(resp.lines[r])
                    /\ read_cell(resp.lines[r][i]).t # "num") => df.rows[r][i] = Num(RZero)

\* C6: a fetched and parsed spreadsheet with no data row after the filtering
\* gives an empty table, not the failure value; the run then ends in the
\* 'no rows' outcome, not the 'load failed' one; and the loader fails at the
\* fetch or the parse only.
C6_EmptyIsNotFailure ==
    /\ (Loaded /\ ZeroDataRows) => (df # None /\ empty(df))
    /\ (pc = "idle" /\ ZeroDataRows) => outcome = "no_rows"
    /\ (Loaded /\ HasTickerAndName) =>
          raised \in {"", "RequestException", "URLError", "EmptyDataError", "ParserError"}

\* C7: the loader on the CSV text of a table it returned succeeds and
\* returns that same table.
C7_ReloadIsIdentity ==
    (variant = "plan" /\ pass = 2 /\ Loaded) => df = first

\* C8: every row of the normalized table has a ticker and a name, and the
\* row count of the metrics is the number of fetched lines that have both.
C8_TickerAndName ==
    /\ NormalizedTable =>
          \A r \in DOMAIN df.rows :
              \A i \in {j \in DOMAIN df.cols : j <= 2 \/ df.cols[j] \in {"ticker", "name"}} :
                  notna(df.rows[r][i])
    /\ (MetricsComputed /\ variant = "plan" /\ pc = "export") =>
          summary.count = Cardinality(GoodLines)
    /\ (MetricsComputed /\ variant = "portfolio") =>
          stats.count = Cardinality(GoodLines)

\* C9: fee_savings is (0.1425 - mean) / 100 * annual total when the mean
\* discount is positive, negative when that mean exceeds 0.1425, and 0 when
\* the mean is not positive; means 0.15 and total 240000 give -18.
C9_FeeSavings ==
    (variant = "plan" /\ summary.keys # {}) =>
        LET m == summary.mean_discount
            a == summary.annual_total
            f == summary.fee_savings
        IN  /\ m.n > 0 => f = Rat((57 * m.d - 400 * m.n) * a.n, 400 * m.d * 100 * a.d)
            /\ (m.n > 0 /\ RLess(Rat(1425, 10000), m) /\ a.n > 0) => f.n < 0
            /\ m.n <= 0 => f = RZero
            /\ (m = Rat(15, 100) /\ a = RInt(240000)) => f = RInt(-18)

\* C9, its case reached: discounts 0.1 and 0.2, annual total 240000, -18
C9_Witness ==
    /\ variant = "plan" /\ pc = "export"
    /\ summary.count = 2
    /\ summary.mean_discount = Rat(15, 100)
    /\ summary.annual_total = RInt(240000)
    /\ summary.fee_savings = RInt(-18)

\* C10: total_return_pct is 0 when the market value sum equals the
\* profit/loss sum and profit/loss / (market value - profit/loss) * 100
\* otherwise; the sum of an absent column is 0; 100000 and 10000 give 11.11.
C10_TotalReturn ==
    (variant = "portfolio" /\ pc \in {"charts", "footer", "idle"}) =>
        LET mv == stats.market_value
            pl == stats.profit_loss
            r == stats.return_rate
        IN  /\ mv = pl => r = RZero
            /\ mv # pl => r = RDiv(RMul(pl, RInt(100)), RSub(mv, pl))
            /\ ~HasCol(df, "market_value") => mv = RZero
            /\ ~HasCol(df, "profit_loss_amount") => pl = RZero
            /\ (mv = RInt(100000) /\ pl = RInt(10000)) => format_2f(r) = 1111

\* C10, its case reached: a zero denominator with sums that are not zero
C10_Witness ==
    /\ variant = "portfolio" /\ pc = "charts"
    /\ stats.market_value = stats.profit_loss
    /\ stats.market_value.n # 0
    /\ stats.return_rate = RZero

\* C11: calculate_investment_summary on an empty recurring-plan table returns
\* a record that holds the row count and the monthly, annual and fee sums,
\* all zero, and an entry for the mean broker discount (marked undefined),
\* not a record without these fields.
C11_ComputeOnEmpty ==
    (variant = "plan" /\ pc = "computed" /\ df # None /\ empty(df)) =>
        /\ {"count", "monthly_total", "annual_total", "total_fee", "mean_discount"}
               \subseteq summary.keys
        /\ summary.count = 0
        /\ summary.monthly_total = RZero
        /\ summary.annual_total = RZero
        /\ summary.total_fee = RZero

\* the cache entry holds the loader's failure result
FailureCached ==
    cache.full /\ cache.value = (IF variant = "plan" THEN None ELSE create_sample_data)

\* C12: a failed load is memoised like a successful one. The failure result
\* is stored when the loader returns; a script run that calls the loader
\* while that entry is younger than its TTL gets the stored result and no
\* fetch is made; a fetch is made only when there is no entry or the entry
\* has reached its TTL; and an entry is removed only by the manual refresh.
C12_FailedLoadMemoised ==
    [][/\ (pc = "return" /\ raised # "") =>
              (cache'.full /\ cache'.value = df /\ age' = 0)
       /\ (pc = "run_start" /\ pc' # "run_start" /\ FailureCached
              /\ age < ttl(variant)) =>
              (df' = cache.value /\ pc' = AfterLoad /\ resp' = resp /\ cache' = cache)
       /\ (pc = "run_start" /\ pc' = "fetch") => (~cache.full \/ age >= ttl(variant))
       /\ (cache.full /\ ~cache'.full) => clicked]_vars

\* C12, its case reached: a run of the plan script has been given the stored
\* None by the cache (no exception was raised in this run) before the TTL
C12_Witness ==
    /\ variant = "plan" /\ pc = "loaded"
    /\ df = None /\ raised = ""
    /\ FailureCached /\ age < ttl(variant)

====
